---------------------------- MODULE Spec2Model ----------------------------
(***************************************************************************)
(* Model of src/ski_choice.py: the hourly scorer, the daily aggregator,    *)
(* the decision engine and the forecast orchestrator.                      *)
(*                                                                         *)
(* Units.  The source computes with floats; the model computes with exact  *)
(* integers in fixed-point units:                                          *)
(*   temperatures            tenths of a degree C                          *)
(*   precipitation, snowfall tenths of a mm                                *)
(*   wind, gust              tenths of a km/h                              *)
(*   wind_exposure           hundredths (0.85 -> 85)                       *)
(*   effective wind/gust     thousandths of a km/h (reading * exposure)    *)
(*   visibility, freezing level, elevation   metres                        *)
(*   cloud cover             percent                                       *)
(*   hour score              1/P of a point (P below), so that every       *)
(*                           per-unit slope of hour_score is an integer    *)
(*   day score, score gaps   tenths of a point                             *)
(* A reading that is absent from a record and a reading that is null are   *)
(* resolved alike by get_val (lines 241-242), so a record is a function    *)
(* whose DOMAIN is the set of keys that carry a number.                    *)
(*                                                                         *)
(* Floats.  Every value is the exact decimal it denotes.  Two effects of   *)
(* binary floating point are therefore outside the model: round() and the  *)
(* format specs at an exact decimal tie (x.x5), where the nearest double   *)
(* may lie on either side, and the subtraction of two scores, where the    *)
(* nearest doubles of 8.2 and 3.2 differ by 4.999999999999999 and not 5.   *)
(* The comparisons of the source are applied to the modelled value.        *)
(***************************************************************************)
EXTENDS Integers, Sequences, FiniteSets, TLC

VARIABLES
    pc,           \* position of the operation under study
    resort,       \* argument: a Resort (its short name)
    row,          \* argument: one hourly record
    hourly,       \* argument: an hourly dataset
    date_iso,     \* argument: the target date (days from today)
    day_results,  \* argument: ordered mapping short -> DayResult
    region,       \* argument: a region tag
    ret,          \* the value returned (or the exception raised) by the call
    args,         \* main: the parsed command line
    forecasts,    \* generate_forecast: short -> fetched dataset
    fetch_log,    \* the calls made to fetch_forecast, in order
    score_log,    \* the dates for which score_day/decide_day_multi have run
    out_days,     \* generate_forecast: the per-date entries built so far
    exit_status,  \* main: process exit status (-1 while running)
    html_written, \* main: the HTML preview file was written
    email_sent    \* main: the report was handed to SMTP

vars == <<pc, resort, row, hourly, date_iso, day_results, region, ret, args,
          forecasts, fetch_log, score_log, out_days, exit_status,
          html_written, email_sent>>

-----------------------------------------------------------------------------
(* Generic helpers *)

Range(s) == { s[i] : i \in DOMAIN s }

Max2(a, b) == IF a >= b THEN a ELSE b

Min2(a, b) == IF a <= b THEN a ELSE b

RECURSIVE SumSeq(_)
SumSeq(s) == IF s = <<>> THEN 0 ELSE Head(s) + SumSeq(Tail(s))

RECURSIVE MaxSeq(_)
MaxSeq(s) == IF Len(s) = 1 THEN s[1] ELSE Max2(Head(s), MaxSeq(Tail(s)))

RECURSIVE MinSeq(_)
MinSeq(s) == IF Len(s) = 1 THEN s[1] ELSE Min2(Head(s), MinSeq(Tail(s)))

(* n/d rounded to the nearest integer, ties to the even neighbour: what     *)
(* round(x, k) and the format specs ":.0f" / ":.1f" do to a value that is   *)
(* exactly n/d of the target unit (d > 0).                                  *)
RoundHalfEven(n, d) ==
    LET q == n \div d
        r == n - q * d
    IN  IF 2 * r < d THEN q
        ELSE IF 2 * r > d THEN q + 1
        ELSE IF q % 2 = 0 THEN q ELSE q + 1

(* One point of hour score, in model units. 30000 = lcm of the denominators *)
(* of all slopes of hour_score over the input units above.                  *)
P == 3 * 10000

-----------------------------------------------------------------------------
(* Configuration, lines 39-41 *)

FORECAST_DAYS == 5

START_HOUR == 9

END_HOUR == 16

(* Resort registry, lines 64-189.  Only the attributes the engine reads.  *)
ALL_RESORTS ==
    << [short |-> "Corviglia",  region |-> "Engadin", elevation_m |-> 2486, aspect |-> "south", wind_exposure |-> 85],
       [short |-> "Corvatsch",  region |-> "Engadin", elevation_m |-> 3303, aspect |-> "north", wind_exposure |-> 125],
       [short |-> "Diavolezza", region |-> "Engadin", elevation_m |-> 2978, aspect |-> "north", wind_exposure |-> 130],
       [short |-> "Zuoz",       region |-> "Engadin", elevation_m |-> 2465, aspect |-> "south", wind_exposure |-> 90],
       [short |-> "Parsenn",    region |-> "Davos",   elevation_m |-> 2817, aspect |-> "north", wind_exposure |-> 110],
       [short |-> "Jakobshorn", region |-> "Davos",   elevation_m |-> 2590, aspect |-> "south", wind_exposure |-> 105],
       [short |-> "Rinerhorn",  region |-> "Davos",   elevation_m |-> 2528, aspect |-> "south", wind_exposure |-> 100],
       [short |-> "Pischa",     region |-> "Davos",   elevation_m |-> 2483, aspect |-> "south", wind_exposure |-> 115],
       [short |-> "Madrisa",    region |-> "Davos",   elevation_m |-> 2600, aspect |-> "north", wind_exposure |-> 105],
       [short |-> "Schatzalp",  region |-> "Davos",   elevation_m |-> 1861, aspect |-> "south", wind_exposure |-> 80] >>

Shorts == { ALL_RESORTS[i].short : i \in DOMAIN ALL_RESORTS }

(* RESORT_BY_SHORT, line 189: a dict keyed by short name.  *)
ResortTable == [s \in Shorts |-> CHOOSE r \in Range(ALL_RESORTS) : r.short = s]

RESORT_BY_SHORT(s) == ResortTable[s]

-----------------------------------------------------------------------------
(* SCORING ENGINE *)

clamp(x, lo, hi) == Max2(lo, Min2(hi, x))

get_val(r, key, default) == IF key \in DOMAIN r THEN r[key] ELSE default

Concern(text, arg) == [text |-> text, arg |-> arg]

(* Each factor of hour_score: [d |-> signed change of the running total,   *)
(* c |-> the concerns it appends].                                          *)
NoChange == [d |-> 0, c |-> <<>>]

GustFactor(rs, r) ==
    LET gust     == get_val(r, "wind_gusts_10m", 0)
        eff_gust == gust * rs.wind_exposure
    IN  IF eff_gust > 60000
        THEN [d |-> -(50 * P), c |-> << Concern("Severe gusts km/h", RoundHalfEven(gust, 10)) >>]
        ELSE IF eff_gust > 45000
        THEN [d |-> -clamp((eff_gust - 45000) * 75, 0, 35 * P),
              c |-> << Concern("High gusts km/h", RoundHalfEven(gust, 10)) >>]
        ELSE IF eff_gust > 30000
        THEN [d |-> -clamp((eff_gust - 30000) * 24, 0, 12 * P), c |-> <<>>]
        ELSE NoChange

WindFactor(rs, r) ==
    LET eff_wind == get_val(r, "wind_speed_10m", 0) * rs.wind_exposure
    IN  [d |-> -clamp((eff_wind - 20000) * 9, 0, 10 * P), c |-> <<>>]

VisFactor(rs, r) ==
    LET vis == get_val(r, "visibility", 20000)
    IN  IF vis < 500
        THEN [d |-> -(40 * P), c |-> << Concern("Very poor visibility (<500m)", 0) >>]
        ELSE IF vis < 1500
        THEN [d |-> -clamp((1500 - vis) * 750, 0, 25 * P),
              c |-> << Concern("Low visibility m", vis) >>]
        ELSE IF vis < 3000
        THEN [d |-> -clamp((3000 - vis) * 200, 0, 10 * P), c |-> <<>>]
        ELSE NoChange

LowCloudFactor(rs, r) ==
    LET cloud_low == get_val(r, "cloud_cover_low", 0)
    IN  IF cloud_low > 80
        THEN [d |-> -(15 * P), c |-> << Concern("Heavy low cloud (flat light)", 0) >>]
        ELSE IF cloud_low > 60
        THEN [d |-> -clamp((cloud_low - 60) * 7500, 0, 8 * P), c |-> <<>>]
        ELSE NoChange

PrecipFactor(rs, r) ==
    LET precip == get_val(r, "precipitation", 0)
    IN  IF precip > 30
        THEN [d |-> -(30 * P), c |-> << Concern("Heavy precip mm/h", precip) >>]
        ELSE IF precip > 10
        THEN [d |-> -clamp((precip - 10) * 36000, 0, 24 * P),
              c |-> << Concern("Moderate precip mm/h", precip) >>]
        ELSE IF precip > 3
        THEN [d |-> -clamp((precip - 3) * 18000, 0, 8 * P), c |-> <<>>]
        ELSE NoChange

FreshSnowFactor(rs, r) ==
    LET snowfall == get_val(r, "snowfall", 0)
        precip   == get_val(r, "precipitation", 0)
        eff_gust == get_val(r, "wind_gusts_10m", 0) * rs.wind_exposure
    IN  IF snowfall > 0 /\ eff_gust < 40000 /\ precip < 15
        THEN [d |-> clamp(snowfall * 6000, 0, 8 * P), c |-> <<>>]
        ELSE NoChange

TempFactor(rs, r) ==
    LET temp == get_val(r, "temperature_2m", 0)
    IN  IF temp > 0
        THEN [d |-> -clamp(temp * 24000, 0, 30 * P),
              c |-> << Concern("Above freezing C", temp) >>]
        ELSE IF temp > -20
        THEN [d |-> -clamp((temp + 20) * 12000, 0, 10 * P), c |-> <<>>]
        ELSE IF temp < -180
        THEN [d |-> -clamp((-180 - temp) * 6000, 0, 20 * P),
              c |-> << Concern("Very cold C", temp) >>]
        ELSE IF temp < -120
        THEN [d |-> -clamp((-120 - temp) * 3600, 0, 10 * P), c |-> <<>>]
        ELSE NoChange

ApparentFactor(rs, r) ==
    LET temp     == get_val(r, "temperature_2m", 0)
        apparent == get_val(r, "apparent_temperature", temp)
    IN  IF apparent < -200
        THEN [d |-> -clamp((-200 - apparent) * 2400, 0, 12 * P), c |-> <<>>]
        ELSE NoChange

FreezingLevelFactor(rs, r) ==
    LET frz == get_val(r, "freezing_level_height", 0)
    IN  IF frz > rs.elevation_m + 200
        THEN LET penalty == clamp((frz - rs.elevation_m - 200) * 450, 0, 20 * P)
             IN  [d |-> -penalty,
                  c |-> IF penalty > 10 * P
                        THEN << Concern("High freezing level m", frz) >>
                        ELSE <<>>]
        ELSE NoChange

AspectFactor(rs, r) ==
    LET temp  == get_val(r, "temperature_2m", 0)
        cloud == get_val(r, "cloud_cover", 0)
    IN  IF rs.aspect = "south"
        THEN IF temp > -30 /\ cloud < 50
             THEN [d |-> -clamp((temp + 30) * 7500, 0, 10 * P), c |-> <<>>]
             ELSE NoChange
        ELSE IF temp > -20 /\ cloud < 60
             THEN [d |-> clamp((temp + 50) * 2400, 0, 6 * P), c |-> <<>>]
             ELSE NoChange

WeatherCodeFactor(rs, r) ==
    LET weather_code == get_val(r, "weather_code", 0)
    IN  IF weather_code >= 95
        THEN [d |-> -(40 * P), c |-> << Concern("Thunderstorm risk", 0) >>]
        ELSE IF weather_code \in {75, 77}
        THEN [d |-> -(5 * P), c |-> <<>>]
        ELSE IF weather_code >= 80
        THEN [d |-> -(15 * P), c |-> << Concern("Rain showers", 0) >>]
        ELSE IF 61 <= weather_code /\ weather_code <= 67
        THEN [d |-> -(20 * P), c |-> << Concern("Rain/freezing rain", 0) >>]
        ELSE NoChange

(* The factors in the order the source evaluates them.  *)
Factors(rs, r) ==
    << GustFactor(rs, r), WindFactor(rs, r), VisFactor(rs, r),
       LowCloudFactor(rs, r), PrecipFactor(rs, r), FreshSnowFactor(rs, r),
       TempFactor(rs, r), ApparentFactor(rs, r), FreezingLevelFactor(rs, r),
       AspectFactor(rs, r), WeatherCodeFactor(rs, r) >>

(* The running total cut to [0, 100] after every factor.  *)
RECURSIVE RunningTotalClampedEachStep(_, _)
RunningTotalClampedEachStep(fs, n) ==
    IF n = 0 THEN [score |-> 100 * P, concerns |-> <<>>]
    ELSE LET prev == RunningTotalClampedEachStep(fs, n - 1)
         IN  [score    |-> clamp(prev.score + fs[n].d, 0, 100 * P),
              concerns |-> prev.concerns \o fs[n].c]

(* The running total and concern list after the first n factors.  *)
RECURSIVE RunningTotal(_, _)
RunningTotal(fs, n) ==
    IF n = 0 THEN [score |-> 100 * P, concerns |-> <<>>]
    ELSE LET prev == RunningTotal(fs, n - 1)
         IN  [score |-> prev.score + fs[n].d, concerns |-> prev.concerns \o fs[n].c]

(* hour_score returning its running total as it stands.  *)
HourReturnUnclamped(score, concerns) == [score |-> score, concerns |-> concerns]

(* The value hour_score returns from its running total, line 365.  *)
HourReturn(score, concerns) == [score |-> clamp(score, 0, 100 * P), concerns |-> concerns]

hour_score(rs, r) ==
    LET fs  == Factors(rs, r)
        tot == RunningTotal(fs, Len(fs))
    IN  HourReturn(tot.score, tot.concerns)


-----------------------------------------------------------------------------
(* FORECAST WINDOW EXTRACTOR *)

(* A timestamp "YYYY-MM-DDTHH:MM" is [date, tail]: date stands for its     *)
(* first 10 characters (as days from today), tail is the sequence of the    *)
(* characters that follow, a digit as itself, "T" as CharT, ":" as CharC.   *)
CharT == 10 + 0

CharC == 10 + 1

IsDigit(c) == c \in 0..9

Timestamp(date, hour) ==
    [date |-> date, tail |-> << CharT, hour \div 10, hour % 10, CharC, 0, 0 >>]

(* t[11:13]: the characters at string offsets 11 and 12 that exist.  *)
HourSlice(t) == SubSeq(t.tail, 2, Min2(3, Len(t.tail)))

(* int(s) of a slice of at most two characters raises ValueError unless s is *)
(* a non-empty string of digits.                                             *)
IntRaises(s) == s = <<>> \/ \E i \in DOMAIN s : ~IsDigit(s[i])

IntOf(s) == IF Len(s) = 1 THEN s[1] ELSE 10 * s[1] + s[2]

(* t.startswith(date_iso), line 375.  *)
StartsWith(t, d) == t.date = d

(* The window read as closed at its end.  *)
InWindowClosed(t, d, start_h, end_h) ==
    /\ StartsWith(t, d)
    /\ start_h <= IntOf(HourSlice(t))
    /\ IntOf(HourSlice(t)) <= end_h

(* The indices i of times whose record is appended to rows, lines 374-378.  *)
InWindow(t, d, start_h, end_h) ==
    /\ StartsWith(t, d)
    /\ start_h <= IntOf(HourSlice(t))
    /\ IntOf(HourSlice(t)) < end_h

(* The record built for index i, lines 379-382.  A column is a function on  *)
(* the indices at which it holds a number.                                   *)
WindowRow(h, i) ==
    LET t    == h["time"][i]
        keys == { k \in DOMAIN h \ {"time"} : i \in DOMAIN h[k] }
    IN  [k \in keys \cup {"time", "hour"} |->
            IF k = "time" THEN t
            ELSE IF k = "hour" THEN IntOf(HourSlice(t))
            ELSE h[k][i]]

(* The loop without its date test: the window's hours of every date.  *)
RECURSIVE WindowRowsAnyDate(_, _, _, _, _)
WindowRowsAnyDate(h, n, d, start_h, end_h) ==
    IF n = 0 THEN <<>>
    ELSE LET before == WindowRowsAnyDate(h, n - 1, d, start_h, end_h)
             t      == h["time"][n]
         IN  IF InWindow(t, t.date, start_h, end_h)
             THEN Append(before, WindowRow(h, n))
             ELSE before

RECURSIVE WindowRows(_, _, _, _, _)
WindowRows(h, n, d, start_h, end_h) ==
    IF n = 0 THEN <<>>
    ELSE LET before == WindowRows(h, n - 1, d, start_h, end_h)
         IN  IF InWindow(h["time"][n], d, start_h, end_h)
             THEN Append(before, WindowRow(h, n))
             ELSE before

(* The exception extract_window_rows ends in, "none" when it returns.  *)
extract_window_rows_exc(h, d) ==
    IF "time" \notin DOMAIN h THEN "KeyError"
    ELSE IF \E i \in DOMAIN h["time"] :
                StartsWith(h["time"][i], d) /\ IntRaises(HourSlice(h["time"][i]))
         THEN "ValueError"
         ELSE "none"

extract_window_rows(h, d, start_h, end_h) ==
    WindowRows(h, Len(h["time"]), d, start_h, end_h)

-----------------------------------------------------------------------------
(* DAILY AGGREGATOR *)

(* list(dict.fromkeys(xs)): xs without repeats, first occurrences kept.  *)
RECURSIVE Dedup(_)
Dedup(xs) ==
    IF xs = <<>> THEN <<>>
    ELSE LET init == Dedup(SubSeq(xs, 1, Len(xs) - 1))
             x    == xs[Len(xs)]
         IN  IF x \in Range(init) THEN init ELSE Append(init, x)

(* xs[:n] *)
Take(xs, n) == SubSeq(xs, 1, Min2(n, Len(xs)))

(* The list cut to 4 before its repeats are dropped.  *)
UniqueConcernsCutFirst(all_concerns) == Dedup(Take(all_concerns, 4))

(* unique_concerns, line 457 *)
UniqueConcerns(all_concerns) == Take(Dedup(all_concerns), 4)

RECURSIVE Flatten(_)
Flatten(ss) == IF ss = <<>> THEN <<>> ELSE Head(ss) \o Flatten(Tail(ss))

(* avg(key), lines 403-405: the mean over the records that carry the key,  *)
(* as the pair sum / n; 0.0 (sum 0, n 1) when no record carries it.          *)
avg(rows, key) ==
    LET idx  == { i \in DOMAIN rows : key \in DOMAIN rows[i] }
        vals == [i \in DOMAIN rows |-> IF i \in idx THEN rows[i][key] ELSE 0]
    IN  IF idx = {} THEN [sum |-> 0, n |-> 1]
        ELSE [sum |-> SumSeq(vals), n |-> Cardinality(idx)]

(* [get_val(r, key, default) for r in rows] *)
Column(rows, key, default) == [i \in DOMAIN rows |-> get_val(rows[i], key, default)]

(* max_val(key), lines 407-409 *)
max_val(rows, key) == MaxSeq(Column(rows, key, 0))

Summary(rs, rows) ==
    LET temp_avg       == avg(rows, "temperature_2m")
        temp_min       == MinSeq(Column(rows, "temperature_2m", 0))
        temp_max       == MaxSeq(Column(rows, "temperature_2m", 0))
        gust_max       == max_val(rows, "wind_gusts_10m")
        gust_eff_max   == gust_max * rs.wind_exposure
        snowfall_total == SumSeq(Column(rows, "snowfall", 0))
        cloud_low_avg  == avg(rows, "cloud_cover_low")
        vis_min        == MinSeq(Column(rows, "visibility", 20000))
        sun_seconds    == SumSeq(Column(rows, "sunshine_duration", 0))
        snow_depth_avg == avg(rows, "snow_depth")
        wind_avg       == avg(rows, "wind_speed_10m")
        cloud_avg      == avg(rows, "cloud_cover")
    IN  [ temp_avg          |-> RoundHalfEven(temp_avg.sum, temp_avg.n),
          temp_min          |-> temp_min,
          temp_max          |-> temp_max,
          gust_max          |-> RoundHalfEven(gust_max, 10),
          gust_eff_max      |-> RoundHalfEven(gust_eff_max, 1000),
          wind_avg          |-> RoundHalfEven(wind_avg.sum, 10 * wind_avg.n),
          precip_total      |-> SumSeq(Column(rows, "precipitation", 0)),
          snowfall_total    |-> snowfall_total,
          cloud_avg         |-> RoundHalfEven(cloud_avg.sum, cloud_avg.n),
          cloud_low_avg     |-> RoundHalfEven(cloud_low_avg.sum, cloud_low_avg.n),
          vis_min           |-> vis_min,
          sun_seconds       |-> sun_seconds,
          snow_depth_avg    |-> RoundHalfEven(snow_depth_avg.sum, 10 * snow_depth_avg.n),
          freeze_thaw_risk  |-> (temp_max > 0 /\ temp_min < -20),
          snow_quality_hint |->
              IF snowfall_total > 20
              THEN IF temp_avg.sum < -60 * temp_avg.n /\ gust_eff_max < 40000
                   THEN "Dry powder-ish"
                   ELSE IF gust_eff_max > 45000 THEN "Wind slab risk" ELSE "None"
              ELSE "None",
          flat_light_risk   |-> (cloud_low_avg.sum > 70 * cloud_low_avg.n \/ vis_min < 1500) ]

(* The empty dict {} *)
EmptyDict == [k \in {} |-> 0]

(* The degenerate DayResult, line 393 *)
NoDataResult ==
    [score |-> 0, concerns |-> << Concern("No forecast data", 0) >>, summary |-> EmptyDict]

(* round(statistics.fmean(scores), 1), in tenths of a point *)
DayScore(scores) == RoundHalfEven(SumSeq(scores) * 10, Len(scores) * P)

(* score_day once rows is known, lines 392-463 *)
ScoreRows(rs, rows) ==
    IF rows = <<>> THEN NoDataResult
    ELSE LET hs == [i \in DOMAIN rows |-> hour_score(rs, rows[i])]
         IN  [score    |-> DayScore([i \in DOMAIN hs |-> hs[i].score]),
              concerns |-> UniqueConcerns(Flatten([i \in DOMAIN hs |-> hs[i].concerns])),
              summary  |-> Summary(rs, rows)]

score_day(rs, h, d) == ScoreRows(rs, extract_window_rows(h, d, START_HOUR, END_HOUR))

(* score_day raises what extract_window_rows raises, line 391.  *)
score_day_exc(rs, h, d) == extract_window_rows_exc(h, d)


-----------------------------------------------------------------------------
(* DECISION ENGINE *)

(* day_results is a dict, whose iteration order is its insertion order: a  *)
(* sequence of items [short, res] with distinct shorts.                     *)
Item(short, res) == [short |-> short, res |-> res]

Keys(dr) == [i \in DOMAIN dr |-> dr[i].short]

(* day_results[s] *)
Lookup(dr, s) == (CHOOSE it \in Range(dr) : it.short = s).res

(* kv[1].get("score", 0) *)
ScoreKey(it) == IF "score" \in DOMAIN it.res THEN it.res.score ELSE 0

(* sorted(..., reverse=True) is stable: an item goes behind every item     *)
(* already placed whose key is not smaller than its own.                    *)
InsertDescBeforeTies(sorted, it) ==
    LET k == Cardinality({ j \in DOMAIN sorted : ScoreKey(sorted[j]) > ScoreKey(it) })
    IN  SubSeq(sorted, 1, k) \o << it >> \o SubSeq(sorted, k + 1, Len(sorted))

InsertDesc(sorted, it) ==
    LET k == Cardinality({ j \in DOMAIN sorted : ScoreKey(sorted[j]) >= ScoreKey(it) })
    IN  SubSeq(sorted, 1, k) \o << it >> \o SubSeq(sorted, k + 1, Len(sorted))

RECURSIVE SortedDesc(_)
SortedDesc(items) ==
    IF items = <<>> THEN <<>>
    ELSE InsertDesc(SortedDesc(SubSeq(items, 1, Len(items) - 1)), items[Len(items)])

rank_resorts(dr) == SortedDesc(dr)

(* max that keeps the last of the items with the greatest key.  *)
RECURSIVE MaxLast(_, _)
MaxLast(cands, n) ==
    IF n = 1 THEN cands[1]
    ELSE LET best == MaxLast(cands, n - 1)
         IN  IF ScoreKey(cands[n]) >= ScoreKey(best) THEN cands[n] ELSE best

(* max(candidates, key=...): a later item replaces the best so far only   *)
(* when its key is strictly greater.                                        *)
RECURSIVE MaxFirst(_, _)
MaxFirst(cands, n) ==
    IF n = 1 THEN cands[1]
    ELSE LET best == MaxFirst(cands, n - 1)
         IN  IF ScoreKey(cands[n]) > ScoreKey(best) THEN cands[n] ELSE best

(* Every item a candidate, whatever its region.  *)
CandidatesAnyRegion(dr, reg) == dr

(* [(short, res) for ... if RESORT_BY_SHORT[short].region == region]  *)
Candidates(dr, reg) ==
    LET InRegion(it) == RESORT_BY_SHORT(it.short).region = reg
    IN  SelectSeq(dr, InRegion)

(* None *)
None == "None"

(* RESORT_BY_SHORT[short] raises KeyError for a short that is not           *)
(* registered; the list comprehension of line 477 looks every key up.       *)
best_in_region_exc(dr, reg) ==
    IF \E i \in DOMAIN dr : dr[i].short \notin Shorts THEN "KeyError" ELSE "none"

best_in_region(dr, reg) ==
    LET candidates == Candidates(dr, reg)
    IN  IF candidates = <<>> THEN None ELSE MaxFirst(candidates, Len(candidates)).short

(* day_results[s]["score"], line 506 *)
calculate_confidence_exc(dr, ranking) ==
    IF Len(ranking) < 2 THEN "none"
    ELSE IF \E i \in DOMAIN ranking :
                \/ ranking[i] \notin Range(Keys(dr))
                \/ "score" \notin DOMAIN Lookup(dr, ranking[i])
         THEN "KeyError"
         ELSE "none"

(* The thresholds read as strict.  *)
ConfidenceLabelStrict(spread_1_2) ==
    IF spread_1_2 > 100 THEN "High"
    ELSE IF spread_1_2 > 50 THEN "Medium"
    ELSE "Low"

(* The label of a rank 1 - rank 2 spread, lines 515-520 *)
ConfidenceLabel(spread_1_2) ==
    IF spread_1_2 >= 100 THEN "High"
    ELSE IF spread_1_2 >= 50 THEN "Medium"
    ELSE "Low"

calculate_confidence(dr, ranking) ==
    IF Len(ranking) < 2
    THEN [confidence |-> "High", spread_1_2 |-> 0, spread_1_5 |-> 0]
    ELSE LET scores     == [i \in DOMAIN ranking |-> Lookup(dr, ranking[i]).score]
             spread_1_2 == scores[1] - scores[2]
             spread_1_5 == IF Len(ranking) >= 5 THEN scores[1] - scores[5] ELSE 0
         IN  [confidence |-> ConfidenceLabel(spread_1_2),
              spread_1_2 |-> spread_1_2,
              spread_1_5 |-> spread_1_5]

(* The 8 point threshold read as strict.  *)
ReasonStrict(pick_short, diff, second_short) ==
    [form |-> IF diff > 80 THEN "leads by" ELSE "Close call", pick |-> pick_short,
     pts |-> RoundHalfEven(diff, 10), second |-> second_short]

(* The reason for a pick that leads second by diff, lines 544-547; the     *)
(* number printed is diff under ":.0f".                                     *)
Reason(pick_short, diff, second_short) ==
    IF diff >= 80
    THEN [form |-> "leads by", pick |-> pick_short, pts |-> RoundHalfEven(diff, 10),
          second |-> second_short]
    ELSE [form |-> "Close call", pick |-> pick_short, pts |-> RoundHalfEven(diff, 10),
          second |-> second_short]

BestAvailable == [form |-> "Best available score"]

(* decide_day_multi without its guard for an empty ranking: ranking[0]    *)
(* raises IndexError.                                                        *)
decide_day_multi_exc_unguarded(dr) ==
    IF rank_resorts(dr) = <<>> THEN "IndexError" ELSE "none"

decide_day_multi_exc(dr) ==
    LET ranking == rank_resorts(dr)
    IN  IF ranking = <<>> THEN "none"
        ELSE IF ranking[1].short \notin Shorts THEN "KeyError"
        ELSE IF calculate_confidence_exc(dr, Keys(ranking)) # "none" THEN "KeyError"
        ELSE "none"

(* The "no data" sentinel, line 532 *)
NoDataDecision ==
    [pick |-> "N/A", reason |-> [form |-> "No forecast data"], ranking |-> <<>>,
     confidence |-> "High", spread_1_2 |-> 0, spread_1_5 |-> 0]

decide_day_multi(dr) ==
    LET ranking == rank_resorts(dr)
    IN  IF ranking = <<>>
        THEN NoDataDecision
        ELSE LET pick_short     == ranking[1].short
                 ranking_shorts == Keys(ranking)
                 conf           == calculate_confidence(dr, ranking_shorts)
                 reason         ==
                     IF Len(ranking) >= 2
                     THEN Reason(pick_short, ranking[1].res.score - ranking[2].res.score,
                                 ranking[2].short)
                     ELSE BestAvailable
             IN  [pick |-> pick_short, reason |-> reason, ranking |-> ranking_shorts,
                  confidence |-> conf.confidence, spread_1_2 |-> conf.spread_1_2,
                  spread_1_5 |-> conf.spread_1_5]


-----------------------------------------------------------------------------
(* INPUTS: hourly records *)

(* r with key k set to v / without key k *)
SetKey(r, k, v) == [x \in DOMAIN r \cup {k} |-> IF x = k THEN v ELSE r[x]]

DelKey(r, k) == [x \in DOMAIN r \ {k} |-> r[x]]

(* The readings hour_score looks at (of HOURLY_VARS, lines 198-213), each  *)
(* with sample values on both sides of the thresholds that read it.         *)
Samples ==
    [ temperature_2m        |-> <<-190, -60, -10, 25>>,
      apparent_temperature  |-> <<-250, -60>>,
      precipitation         |-> <<0, 12, 40>>,
      snowfall              |-> <<0, 30, 50>>,
      cloud_cover           |-> <<30, 90>>,
      cloud_cover_low       |-> <<10, 70, 90>>,
      visibility            |-> <<300, 1000, 2000, 20000>>,
      wind_speed_10m        |-> <<100, 400>>,
      wind_gusts_10m        |-> <<255, 385, 505, 5000>>,
      freezing_level_height |-> <<2000, 3600>>,
      weather_code          |-> <<0, 63, 75, 81, 96>> ]

(* A calm cold clear hour: nothing for hour_score to penalise.  *)
IdealRow ==
    [ temperature_2m |-> -60, apparent_temperature |-> -60, precipitation |-> 0,
      snowfall |-> 0, cloud_cover |-> 30, cloud_cover_low |-> 10,
      visibility |-> 20000, wind_speed_10m |-> 100, wind_gusts_10m |-> 255,
      freezing_level_height |-> 2000, weather_code |-> 0 ]

(* A warm thunderstorm with a 500 km/h gust: every penalty at once.  *)
StormRow ==
    [ temperature_2m |-> 25, apparent_temperature |-> -250, precipitation |-> 40,
      snowfall |-> 0, cloud_cover |-> 30, cloud_cover_low |-> 90,
      visibility |-> 300, wind_speed_10m |-> 400, wind_gusts_10m |-> 5000,
      freezing_level_height |-> 3600, weather_code |-> 96 ]

(* How many readings of a record may differ from IdealRow or StormRow.  *)
MaxDev == 2

(* The ways to change one reading: take its j-th sample, or (j = 0) drop it. *)
Choices(S) ==
    { ch \in [S -> 0..5] : \A k \in S : ch[k] <= Len(Samples[k]) }

(* base with the readings of DOMAIN ch changed as ch says.  *)
Override(base, ch) ==
    [k \in { x \in DOMAIN base : x \notin DOMAIN ch \/ ch[x] # 0 } |->
        IF k \in DOMAIN ch THEN Samples[k][ch[k]] ELSE base[k]]

(* row is IdealRow or StormRow with at most MaxDev readings changed.  *)
IsHourRow(r) ==
    \E base \in {IdealRow, StormRow} :
      \E S \in { T \in SUBSET DOMAIN Samples : Cardinality(T) <= MaxDev } :
        \E ch \in Choices(S) : r = Override(base, ch)

-----------------------------------------------------------------------------
(* How a call ends: it returns a value, or it raises an exception.  *)
Returned(v) == [exc |-> "none", val |-> v]

Raised(e) == [exc |-> e]

Outcome(e, v) == IF e # "none" THEN Raised(e) ELSE Returned(v)

-----------------------------------------------------------------------------
(* Values of the variables an operation does not use *)

Unset == "unset"

IdleArgs ==
    /\ resort = Unset /\ row = EmptyDict /\ hourly = EmptyDict /\ date_iso = 0
    /\ day_results = <<>> /\ region = Unset

IdleMain ==
    /\ args = Unset /\ forecasts = EmptyDict /\ fetch_log = <<>> /\ score_log = <<>>
    /\ out_days = <<>> /\ exit_status = -1 /\ html_written = FALSE
    /\ email_sent = FALSE

mainVars == <<args, forecasts, fetch_log, score_log, out_days, exit_status,
              html_written, email_sent>>

argVars == <<resort, row, hourly, date_iso, day_results, region>>

-----------------------------------------------------------------------------
(* HOURLY SCORER: one call of hour_score on any resort and sample record *)

InitHour ==
    /\ pc = "call" /\ ret = Unset
    /\ resort \in Shorts
    /\ IsHourRow(row)
    /\ hourly = EmptyDict /\ date_iso = 0 /\ day_results = <<>> /\ region = Unset
    /\ IdleMain

HourScore ==
    /\ pc = "call"
    /\ ret' = Returned(hour_score(RESORT_BY_SHORT(resort), row))
    /\ pc' = "hour_score"
    /\ UNCHANGED <<argVars, mainVars>>

NextHour == HourScore

SpecHour == InitHour /\ [][NextHour]_vars

(* The running total of hour_score before its final clamp.  *)
RawTotal(rs, r) == RunningTotal(Factors(rs, r), Len(Factors(rs, r))).score


(* C1: for every resort and every record, whatever readings are present,   *)
(* absent or extreme, the score hour_score returns lies in [0, 100].        *)
C1_HourScoreInRange ==
    pc = "hour_score" =>
        /\ ret.exc = "none"
        /\ 0 <= ret.val.score /\ ret.val.score <= 100 * P

(* A 500 km/h gust among penalties that sum to more than 100 points: the   *)
(* running total is negative and the score returned is 0.                   *)
C1_Witness ==
    /\ pc = "hour_score"
    /\ "wind_gusts_10m" \in DOMAIN row /\ row["wind_gusts_10m"] = 5000
    /\ RawTotal(RESORT_BY_SHORT(resort), row) < 0
    /\ ret = Returned([score |-> 0, concerns |-> ret.val.concerns])

(* The sum of the changes of the factors fs[n], fs[n+1], ..., last first. *)
RECURSIVE DeltaSumFrom(_, _)
DeltaSumFrom(fs, n) ==
    IF n > Len(fs) THEN 0 ELSE DeltaSumFrom(fs, n + 1) + fs[n].d

(* xs with its first two entries after the others.  *)
Rotated(xs) == SubSeq(xs, 3, Len(xs)) \o SubSeq(xs, 1, 2)

(* C14: the score hour_score returns is 100 plus the sum of the changes of *)
(* its factors, each computed from the record and the resort alone, cut to  *)
(* [0, 100] once at the end: the sum may be taken over the factors in any   *)
(* order (here last to first, and from the third on) with the same score,   *)
(* and the concerns are those of the factors in evaluation order.           *)
C14_AdditiveClampOnce ==
    pc = "hour_score" =>
        LET fs == Factors(RESORT_BY_SHORT(resort), row)
        IN  /\ ret.exc = "none"
            /\ ret.val.score = Min2(100 * P, Max2(0, 100 * P + DeltaSumFrom(fs, 1)))
            /\ ret.val.score =
                  Min2(100 * P, Max2(0, RunningTotal(Rotated(fs), Len(fs)).score))
            /\ ret.val.concerns = Flatten([i \in DOMAIN fs |-> fs[i].c])

(* A fresh-snow bonus lifts the running total above 100 and a later        *)
(* penalty brings it back below: the bonus still counts in the score.       *)
C14_Witness ==
    /\ pc = "hour_score"
    /\ LET fs == Factors(RESORT_BY_SHORT(resort), row)
       IN  /\ \E n \in DOMAIN fs : RunningTotal(fs, n).score > 100 * P
           /\ ret.val.score < 100 * P
           /\ ret.val.score = 100 * P + DeltaSumFrom(fs, 1)
           /\ \E i, j \in DOMAIN fs : fs[i].d > 0 /\ fs[j].d < 0 /\ i < j

(* Gust readings from 0 to 70 km/h in steps of 0.5 km/h, in tenths.  *)
GustGrid == { 5 * k : k \in 0..140 }

(* C17: for the resort and the record of the call, a record that differs   *)
(* only by a higher gust reading never has a higher hour score.             *)
C17_GustMonotone ==
    pc = "hour_score" =>
        \A g \in GustGrid :
            g >= get_val(row, "wind_gusts_10m", 0) =>
                hour_score(RESORT_BY_SHORT(resort), SetKey(row, "wind_gusts_10m", g)).score
                    <= ret.val.score

-----------------------------------------------------------------------------
(* INPUTS: day-results mappings *)

(* Day scores in tenths of a point; their differences fall on and beside   *)
(* the 5, 8 and 10 point thresholds.                                        *)
ScoreVals == {0, 550, 600, 620, 655, 700}

(* Insertion orders of a mapping: the registry's own, and one that mixes   *)
(* the regions and is not sorted by anything.                               *)
KeyOrders ==
    { Keys(ALL_RESORTS),
      << "Schatzalp", "Zuoz", "Madrisa", "Corvatsch", "Pischa", "Diavolezza",
         "Corviglia", "Rinerhorn", "Parsenn", "Jakobshorn" >> }

(* The largest number of locations in a mapping.  *)
MaxLocs == 5

DayResultOf(score) == [score |-> score, concerns |-> <<>>, summary |-> EmptyDict]

(* dr is a mapping of at most MaxLocs locations, in one of KeyOrders, with  *)
(* scores of ScoreVals.                                                     *)
IsDayMap(dr) ==
    \E n \in 0..Min2(MaxLocs, Len(ALL_RESORTS)) :
      \E order \in KeyOrders :
        \E sc \in [1..n -> ScoreVals] :
          dr = [i \in 1..n |-> Item(order[i], DayResultOf(sc[i]))]

Regions == {"Engadin", "Davos", "Arosa"}

-----------------------------------------------------------------------------
(* DECISION ENGINE: one call of one of its functions on a mapping *)

InitDecide ==
    /\ pc = "call" /\ ret = Unset
    /\ IsDayMap(day_results)
    /\ resort = Unset /\ row = EmptyDict /\ hourly = EmptyDict /\ date_iso = 0
    /\ region = Unset
    /\ IdleMain

RankResorts ==
    /\ pc = "call"
    /\ ret' = Returned(Keys(rank_resorts(day_results)))
    /\ pc' = "rank_resorts"
    /\ UNCHANGED <<argVars, mainVars>>

BestInRegion ==
    /\ pc = "call"
    /\ \E reg \in Regions :
          /\ region' = reg
          /\ ret' = Outcome(best_in_region_exc(day_results, reg),
                            best_in_region(day_results, reg))
    /\ pc' = "best_in_region"
    /\ UNCHANGED <<resort, row, hourly, date_iso, day_results, mainVars>>

CalculateConfidence ==
    /\ pc = "call"
    /\ LET ranking == Keys(rank_resorts(day_results))
       IN  ret' = Outcome(calculate_confidence_exc(day_results, ranking),
                          calculate_confidence(day_results, ranking))
    /\ pc' = "calculate_confidence"
    /\ UNCHANGED <<argVars, mainVars>>

DecideDayMulti ==
    /\ pc = "call"
    /\ ret' = Outcome(decide_day_multi_exc(day_results), decide_day_multi(day_results))
    /\ pc' = "decide_day_multi"
    /\ UNCHANGED <<argVars, mainVars>>

NextDecide == RankResorts \/ BestInRegion \/ CalculateConfidence \/ DecideDayMulti

SpecDecide == InitDecide /\ [][NextDecide]_vars


(* The day score of the i-th item of a mapping, and the k-th highest day   *)
(* score of a mapping counted with repeats, both read off the mapping.      *)
ScoreAt(dr, i) == dr[i].res.score

KthScore(dr, k) ==
    CHOOSE v \in { ScoreAt(dr, i) : i \in DOMAIN dr } :
        /\ Cardinality({ i \in DOMAIN dr : ScoreAt(dr, i) > v }) < k
        /\ Cardinality({ i \in DOMAIN dr : ScoreAt(dr, i) >= v }) >= k

(* The position of location s in a sequence of distinct locations.  *)
PosIn(keys, s) == CHOOSE i \in DOMAIN keys : keys[i] = s

(* C2: rank_resorts returns a permutation of the input locations ordered   *)
(* by day score descending; two locations with equal day scores keep the    *)
(* relative order they have in the input mapping.                           *)
C2_RankStablePermutation ==
    pc = "rank_resorts" =>
        LET in  == Keys(day_results)
            out == ret.val
            ScoreOf(s) == Lookup(day_results, s).score
        IN  /\ ret.exc = "none"
            /\ Len(out) = Len(in)
            /\ Range(out) = Range(in)
            /\ \A i, j \in DOMAIN out : i < j =>
                  /\ ScoreOf(out[i]) >= ScoreOf(out[j])
                  /\ ScoreOf(out[i]) = ScoreOf(out[j]) => PosIn(in, out[i]) < PosIn(in, out[j])

(* A mapping that the ranking reorders and that holds a tie.  *)
C2_Witness ==
    /\ pc = "rank_resorts"
    /\ ret.val # Keys(day_results)
    /\ \E i, j \in DOMAIN day_results :
          i < j /\ ScoreAt(day_results, i) = ScoreAt(day_results, j)

C5_BestInRegion ==
    pc = "best_in_region" =>
        LET inReg == { i \in DOMAIN day_results :
                          \E r \in Range(ALL_RESORTS) :
                              r.short = day_results[i].short /\ r.region = region }
        IN  /\ ret.exc = "none"
            /\ inReg = {} => ret.val = None
            /\ inReg # {} =>
                  \E i \in inReg :
                      /\ ret.val = day_results[i].short
                      /\ \A j \in inReg : ScoreAt(day_results, j) <= ScoreAt(day_results, i)

(* A mapping with locations of both regions in which the best of the       *)
(* region asked for is neither the first of its region nor the best of all. *)
C5_Witness ==
    /\ pc = "best_in_region"
    /\ ret.val # None
    /\ \E i, j, k \in DOMAIN day_results :
          /\ day_results[j].short = ret.val
          /\ i < j
          /\ RESORT_BY_SHORT(day_results[i].short).region = region
          /\ RESORT_BY_SHORT(day_results[k].short).region # region
          /\ ScoreAt(day_results, k) > ScoreAt(day_results, j)

(* C7: on an empty mapping decide_day_multi returns the "no data" sentinel *)
(* pick with an empty ranking, confidence "High" and both gaps 0, and       *)
(* raises nothing.                                                          *)
C7_EmptyMapSentinel ==
    (pc = "decide_day_multi" /\ day_results = <<>>) =>
        /\ ret.exc = "none"
        /\ ret.val.pick = "N/A"
        /\ ret.val.ranking = <<>>
        /\ ret.val.confidence = "High"
        /\ ret.val.spread_1_2 = 0
        /\ ret.val.spread_1_5 = 0

C7_Witness ==
    /\ pc = "decide_day_multi"
    /\ day_results = <<>>
    /\ ret = Returned(NoDataDecision)

(* The region the registry gives a location.  *)
RegionOf(short) == (CHOOSE r \in Range(ALL_RESORTS) : r.short = short).region

(* C15: for a non-empty mapping over registered locations, tied scores     *)
(* included, the location decide_day_multi picks is the location            *)
(* best_in_region returns for the region of that pick.                      *)
C15_PickIsBestOfItsRegion ==
    (pc = "decide_day_multi" /\ day_results # <<>>) =>
        /\ ret.exc = "none"
        /\ ret.val.pick \in Shorts
        /\ best_in_region_exc(day_results, RegionOf(ret.val.pick)) = "none"
        /\ best_in_region(day_results, RegionOf(ret.val.pick)) = ret.val.pick

(* The top score is shared by two locations of the pick's region and by a  *)
(* location of another region.                                              *)
C15_Witness ==
    /\ pc = "decide_day_multi"
    /\ Len(day_results) >= 3
    /\ \E i, j, k \in DOMAIN day_results :
          /\ i # j
          /\ day_results[i].short = ret.val.pick
          /\ RegionOf(day_results[j].short) = RegionOf(ret.val.pick)
          /\ RegionOf(day_results[k].short) # RegionOf(ret.val.pick)
          /\ day_results[j].res.score = day_results[i].res.score
          /\ day_results[k].res.score = day_results[i].res.score
          /\ \A m \in DOMAIN day_results :
                day_results[m].res.score <= day_results[i].res.score


-----------------------------------------------------------------------------
(* INPUTS: hourly datasets *)

(* The timestamps a dataset may hold, in the order the provider lists      *)
(* them: hours before, at the edges of, inside and after the operating      *)
(* window of today, and the first hour of tomorrow's window.                *)
TimeUniverse ==
    << Timestamp(0, 8), Timestamp(0, 9), Timestamp(0, 12), Timestamp(0, 15),
       Timestamp(0, 16), Timestamp(1, 9) >>

(* The records a dataset may hold at a timestamp.  *)
FoggyRow ==
    [ temperature_2m |-> -60, visibility |-> 1000, cloud_cover |-> 90,
      cloud_cover_low |-> 90, wind_speed_10m |-> 100, wind_gusts_10m |-> 255,
      snowfall |-> 30, snow_depth |-> 125, sunshine_duration |-> 0 ]

WarmRow ==
    [ temperature_2m |-> 25, apparent_temperature |-> 10, precipitation |-> 12,
      cloud_cover |-> 90, cloud_cover_low |-> 70, visibility |-> 20000,
      wind_gusts_10m |-> 385, weather_code |-> 81, sunshine_duration |-> 1800 ]

ColdRow ==
    [ temperature_2m |-> -190, snowfall |-> 50, wind_speed_10m |-> 400,
      wind_gusts_10m |-> 505, snow_depth |-> 80, sunshine_duration |-> 3600 ]

RowSamples == << IdealRow, StormRow, FoggyRow, WarmRow, ColdRow, EmptyDict >>

(* The largest number of timestamps in a dataset.  *)
MaxTimes == 3

(* The i-th smallest element of a set of integers.  *)
NthOf(S, i) == CHOOSE x \in S : Cardinality({ y \in S : y < x }) = i - 1

(* The dataset with the given timestamps and, at index i, the readings of  *)
(* rws[i]; a column no record has a reading for is missing.                 *)
MkHourly(times, rws) ==
    LET cols == UNION { DOMAIN rws[i] : i \in DOMAIN rws }
    IN  [k \in cols \cup {"time"} |->
            IF k = "time" THEN times
            ELSE [i \in { j \in DOMAIN rws : k \in DOMAIN rws[j] } |-> rws[i][k]]]

(* h holds at most n timestamps of TimeUniverse, in order, each with the   *)
(* readings of one of RowSamples.                                           *)
IsDatasetUpTo(h, n) ==
    \E S \in { T \in SUBSET DOMAIN TimeUniverse : Cardinality(T) <= n } :
      \E pick \in [1..Cardinality(S) -> DOMAIN RowSamples] :
        h = MkHourly([i \in 1..Cardinality(S) |-> TimeUniverse[NthOf(S, i)]],
                     [i \in 1..Cardinality(S) |-> RowSamples[pick[i]]])

IsDataset(h) == IsDatasetUpTo(h, MaxTimes)

(* Target dates: today, tomorrow, and the day after the last timestamp.  *)
Dates == 0..2

(* A south-facing sheltered resort and a north-facing exposed one.  *)
DayResorts == {"Corviglia", "Corvatsch"}

-----------------------------------------------------------------------------
(* DAILY AGGREGATOR: one call of extract_window_rows or score_day *)

InitDay ==
    /\ pc = "call" /\ ret = Unset
    /\ resort \in DayResorts
    /\ IsDataset(hourly)
    /\ date_iso \in Dates
    /\ row = EmptyDict /\ day_results = <<>> /\ region = Unset
    /\ IdleMain

ExtractWindowRows ==
    /\ pc = "call"
    /\ ret' = Outcome(extract_window_rows_exc(hourly, date_iso),
                      extract_window_rows(hourly, date_iso, START_HOUR, END_HOUR))
    /\ pc' = "extract_window_rows"
    /\ UNCHANGED <<argVars, mainVars>>

ScoreDay ==
    /\ pc = "call"
    /\ ret' = Outcome(score_day_exc(RESORT_BY_SHORT(resort), hourly, date_iso),
                      score_day(RESORT_BY_SHORT(resort), hourly, date_iso))
    /\ pc' = "score_day"
    /\ UNCHANGED <<argVars, mainVars>>

NextDay == ExtractWindowRows \/ ScoreDay

SpecDay == InitDay /\ [][NextDay]_vars

(* The hour of day a well-formed timestamp names, read off its digits.  *)
HourOf(t) == 10 * t.tail[2] + t.tail[3]

(* The indices of the dataset's timestamps on the target date whose hour   *)
(* lies in the operating window [9, 16).                                    *)
WindowIdx(h, d) ==
    { i \in DOMAIN h["time"] :
        /\ h["time"][i].date = d
        /\ 9 <= HourOf(h["time"][i]) /\ HourOf(h["time"][i]) < 16 }

(* C6: when no record of the dataset falls on the target date inside the   *)
(* operating window, score_day returns score 0, concerns exactly            *)
(* ["No forecast data"] and an empty summary, and raises nothing.           *)
C6_EmptyWindowDegenerate ==
    (pc = "score_day" /\ WindowIdx(hourly, date_iso) = {}) =>
        /\ ret.exc = "none"
        /\ ret.val.score = 0
        /\ ret.val.concerns = << [text |-> "No forecast data", arg |-> 0] >>
        /\ DOMAIN ret.val.summary = {}

(* A dataset with records on the target date, all outside the window, and  *)
(* a dataset whose timestamps all precede the target date.                  *)
C6_Witness ==
    /\ pc = "score_day"
    /\ ret = Returned(NoDataResult)
    /\ \/ \E i \in DOMAIN hourly["time"] :
             hourly["time"][i].date = date_iso /\ HourOf(hourly["time"][i]) = 16
       \/ /\ hourly["time"] # <<>>
          /\ \A i \in DOMAIN hourly["time"] : hourly["time"][i].date < date_iso

(* The concatenation of the hourly concern lists of the window's records,  *)
(* in hour order.                                                           *)
AllConcerns(rs, h, d) ==
    LET idx == WindowIdx(h, d)
    IN  Flatten([n \in 1..Cardinality(idx) |->
                    hour_score(rs, WindowRow(h, NthOf(idx, n))).concerns])

(* The index at which x first occurs in xs.  *)
FirstAt(xs, x) == CHOOSE i \in DOMAIN xs : xs[i] = x /\ \A j \in 1..(i - 1) : xs[j] # x

(* C8: for a non-empty window the concerns of the DayResult hold no        *)
(* string twice, have at most 4 entries, and are the first (up to) 4        *)
(* distinct strings of the concatenated hourly concern lists, in            *)
(* first-occurrence order.                                                  *)
C8_ConcernsDedupCap ==
    (pc = "score_day" /\ WindowIdx(hourly, date_iso) # {}) =>
        LET all == AllConcerns(RESORT_BY_SHORT(resort), hourly, date_iso)
            out == ret.val.concerns
        IN  /\ ret.exc = "none"
            /\ \A i, j \in DOMAIN out : i # j => out[i] # out[j]
            /\ Len(out) <= 4
            /\ Len(out) = Min2(4, Cardinality(Range(all)))
            /\ Range(out) \subseteq Range(all)
            /\ \A i, j \in DOMAIN out : i < j => FirstAt(all, out[i]) < FirstAt(all, out[j])
            /\ \A x \in Range(all) :
                  (\E i \in DOMAIN out : FirstAt(all, x) < FirstAt(all, out[i])) =>
                      x \in Range(out)

(* A window whose hours repeat a concern among the first four entries of   *)
(* the concatenation and raise more than four distinct concerns.            *)
C8_Witness ==
    /\ pc = "score_day"
    /\ WindowIdx(hourly, date_iso) # {}
    /\ LET all == AllConcerns(RESORT_BY_SHORT(resort), hourly, date_iso)
       IN  /\ Cardinality(Range(all)) > 4
           /\ \E i, j \in 1..4 : i < j /\ all[i] = all[j]
           /\ Len(ret.val.concerns) = 4

(* C11: extract_window_rows returns one record for each timestamp whose    *)
(* date prefix is the target date and whose hour h has 9 <= h < 16, and    *)
(* for no other timestamp; the records come in timestamp order, each with   *)
(* its timestamp and hour, so that every hour of the window has as many     *)
(* records as the dataset has timestamps for it on the target date; a      *)
(* record carries exactly the columns that hold a value at its index, with  *)
(* that value.                                                              *)
C11_WindowInclusion ==
    pc = "extract_window_rows" =>
        LET times == hourly["time"]
            idx   == WindowIdx(hourly, date_iso)
            out   == ret.val
        IN  /\ ret.exc = "none"
            /\ Len(out) = Cardinality(idx)
            /\ \A n \in DOMAIN out :
                  LET i == NthOf(idx, n)
                  IN  /\ out[n]["time"] = times[i]
                      /\ out[n]["hour"] = HourOf(times[i])
                      /\ DOMAIN out[n] \ {"time", "hour"} =
                            { k \in DOMAIN hourly \ {"time"} : i \in DOMAIN hourly[k] }
                      /\ \A k \in DOMAIN out[n] \ {"time", "hour"} :
                            out[n][k] = hourly[k][i]
            /\ \A hh \in 9..15 :
                  Cardinality({ n \in DOMAIN out : out[n]["hour"] = hh }) =
                  Cardinality({ i \in DOMAIN times :
                                  times[i].date = date_iso /\ HourOf(times[i]) = hh })
            /\ \A n \in DOMAIN out : out[n]["hour"] \in 9..15

(* The target date holds the hours 9 and 16 and another date holds hour 9: *)
(* only the first is returned, and its record lacks a column that the      *)
(* dataset has for another timestamp.                                       *)
C11_Witness ==
    /\ pc = "extract_window_rows"
    /\ \E i, j, k \in DOMAIN hourly["time"] :
          /\ hourly["time"][i] = Timestamp(date_iso, 9)
          /\ hourly["time"][j] = Timestamp(date_iso, 16)
          /\ hourly["time"][k].date # date_iso /\ HourOf(hourly["time"][k]) = 9
          /\ \E c \in DOMAIN hourly \ {"time"} : i \notin DOMAIN hourly[c]
    /\ Len(ret.val) = 1
    /\ ret.val[1]["hour"] = 9
    /\ DOMAIN ret.val[1] # DOMAIN hourly \cup {"hour"}

(* The reading of column key at index i, an absent reading resolved to    *)
(* the default the hourly scorer uses for it.                               *)
ReadingOr(h, i, key, default) ==
    IF key \in DOMAIN h /\ i \in DOMAIN h[key] THEN h[key][i] ELSE default

(* The window's readings of one column, in hour order, defaults resolved.  *)
WindowColumn(h, d, key, default) ==
    LET idx == WindowIdx(h, d)
    IN  [n \in 1..Cardinality(idx) |-> ReadingOr(h, NthOf(idx, n), key, default)]

(* C12: for a non-empty window every statistic of the summary is taken     *)
(* over the window's readings with an absent reading resolved to the        *)
(* scorer's default (0, or 20000 for visibility): the means count a record  *)
(* that lacks the reading as the default, as the min, max and sums do.      *)
C12_SummaryUsesDefaults ==
    (pc = "score_day" /\ WindowIdx(hourly, date_iso) # {}) =>
        LET col(key) == WindowColumn(hourly, date_iso, key, 0)
            n        == Cardinality(WindowIdx(hourly, date_iso))
            sm       == ret.val.summary
        IN  /\ ret.exc = "none"
            /\ sm.temp_min = MinSeq(col("temperature_2m"))
            /\ sm.temp_max = MaxSeq(col("temperature_2m"))
            /\ sm.gust_max = RoundHalfEven(MaxSeq(col("wind_gusts_10m")), 10)
            /\ sm.precip_total = SumSeq(col("precipitation"))
            /\ sm.snowfall_total = SumSeq(col("snowfall"))
            /\ sm.sun_seconds = SumSeq(col("sunshine_duration"))
            /\ sm.vis_min = MinSeq(WindowColumn(hourly, date_iso, "visibility", 20000))
            /\ sm.temp_avg = RoundHalfEven(SumSeq(col("temperature_2m")), n)
            /\ sm.wind_avg = RoundHalfEven(SumSeq(col("wind_speed_10m")), 10 * n)
            /\ sm.cloud_avg = RoundHalfEven(SumSeq(col("cloud_cover")), n)
            /\ sm.cloud_low_avg = RoundHalfEven(SumSeq(col("cloud_cover_low")), n)
            /\ sm.snow_depth_avg = RoundHalfEven(SumSeq(col("snow_depth")), 10 * n)


-----------------------------------------------------------------------------
(* FORECAST ORCHESTRATOR AND MAIN: one run of the program *)

(* What fetch_forecast may return for a resort: six days of hourly data    *)
(* (forecast_days = days + 1, line 558), or a response that stops after     *)
(* tomorrow.  Two in-window hours stand for each day.                       *)
DayTimes(d) == << Timestamp(d, 9), Timestamp(d, 12) >>

DayRecords(d) == << RowSamples[(d % 5) + 1], IdealRow >>

RECURSIVE TimesUpTo(_)
TimesUpTo(d) == IF d < 0 THEN <<>> ELSE TimesUpTo(d - 1) \o DayTimes(d)

RECURSIVE RecordsUpTo(_)
RecordsUpTo(d) == IF d < 0 THEN <<>> ELSE RecordsUpTo(d - 1) \o DayRecords(d)

FullData == MkHourly(TimesUpTo(FORECAST_DAYS), RecordsUpTo(FORECAST_DAYS))

ShortData == MkHourly(TimesUpTo(1), RecordsUpTo(1))

Responses == {FullData, ShortData}

(* {k: d[k] for the keys of d, then short: h} *)
Put(d, short, h) == [k \in DOMAIN d \cup {short} |-> IF k = short THEN h ELSE d[k]]

Init ==
    /\ pc = "fetch"
    /\ args \in [dry_run : BOOLEAN, html_out : BOOLEAN]
    /\ forecasts = EmptyDict /\ fetch_log = <<>> /\ score_log = <<>>
    /\ out_days = <<>> /\ exit_status = -1
    /\ html_written = FALSE /\ email_sent = FALSE
    /\ ret = Unset
    /\ IdleArgs

(* The resort the dict comprehension of line 558 fetches next.  *)
NextResort == ALL_RESORTS[Len(fetch_log) + 1]

(* fetch_forecast returns a dataset, lines 216-229 and 558.  *)
FetchReturns ==
    /\ pc = "fetch"
    /\ Len(fetch_log) < Len(ALL_RESORTS)
    /\ \E h \in Responses :
          forecasts' = Put(forecasts, NextResort.short, h)
    /\ fetch_log' = Append(fetch_log, [short |-> NextResort.short, ok |-> TRUE])
    /\ pc' = IF Len(fetch_log') = Len(ALL_RESORTS) THEN "score" ELSE "fetch"
    /\ UNCHANGED <<argVars, ret, args, score_log, out_days, exit_status,
                   html_written, email_sent>>

(* A failed fetch that is logged and passed over: the resort is given an   *)
(* empty dataset and the run goes on.                                       *)
FetchRaisesSkipped ==
    /\ pc = "fetch"
    /\ Len(fetch_log) < Len(ALL_RESORTS)
    /\ forecasts' = Put(forecasts, NextResort.short, MkHourly(<<>>, <<>>))
    /\ fetch_log' = Append(fetch_log, [short |-> NextResort.short, ok |-> FALSE])
    /\ pc' = IF Len(fetch_log') = Len(ALL_RESORTS) THEN "score" ELSE "fetch"
    /\ UNCHANGED <<argVars, ret, args, score_log, out_days, exit_status,
                   html_written, email_sent>>

(* fetch_forecast raises (requests.get or raise_for_status, lines 227-228): *)
(* the exception leaves generate_forecast and main prints the failure and   *)
(* calls sys.exit(1), lines 948-952.                                        *)
FetchRaises ==
    /\ pc = "fetch"
    /\ Len(fetch_log) < Len(ALL_RESORTS)
    /\ fetch_log' = Append(fetch_log, [short |-> NextResort.short, ok |-> FALSE])
    /\ ret' = "Forecast generation failed"
    /\ exit_status' = 1
    /\ pc' = "exit"
    /\ UNCHANGED <<argVars, args, forecasts, score_log, out_days, html_written,
                   email_sent>>

(* day_results without the locations that have no forecast data for d.  *)
DayResultsWithData(d) ==
    LET all == [i \in DOMAIN ALL_RESORTS |->
                   Item(ALL_RESORTS[i].short,
                        score_day(ALL_RESORTS[i], forecasts[ALL_RESORTS[i].short], d))]
        Kept(it) == it.res # NoDataResult
    IN  SelectSeq(all, Kept)

(* The day_results of date d, lines 566-568.  *)
DayResults(d) ==
    [i \in DOMAIN ALL_RESORTS |->
        Item(ALL_RESORTS[i].short, score_day(ALL_RESORTS[i], forecasts[ALL_RESORTS[i].short], d))]

(* The exception one iteration of the day loop ends in, lines 566-572,     *)
(* given the day_results it would build.                                    *)
DayExc(d, dr) ==
    IF \E i \in DOMAIN ALL_RESORTS :
          score_day_exc(ALL_RESORTS[i], forecasts[ALL_RESORTS[i].short], d) # "none"
    THEN "Exception"
    ELSE IF decide_day_multi_exc(dr) # "none" THEN "KeyError"
    ELSE best_in_region_exc(dr, "Engadin")

(* The entry appended to out_days for date d, lines 570-587.  *)
DayEntry(d, dr, dec) ==
    [date |-> d, results |-> dr, ranking |-> dec.ranking, pick |-> dec.pick,
     reason |-> dec.reason,
     pick_engadin |-> best_in_region(dr, "Engadin"),
     pick_davos |-> best_in_region(dr, "Davos"),
     confidence |-> dec.confidence, spread_1_2 |-> dec.spread_1_2,
     spread_1_5 |-> dec.spread_1_5]

(* The day loop with the fetches inside it: every iteration fetches the    *)
(* datasets again before it scores.                                         *)
ScoreNextDayRefetching ==
    /\ pc = "score"
    /\ \E d \in {Len(score_log)} :
         \E dr \in {DayResults(d)} :
           /\ score_log' = Append(score_log, d)
           /\ fetch_log' = fetch_log \o
                  [i \in DOMAIN ALL_RESORTS |-> [short |-> ALL_RESORTS[i].short, ok |-> TRUE]]
           /\ IF DayExc(d, dr) # "none"
              THEN /\ ret' = "Forecast generation failed"
                   /\ exit_status' = 1
                   /\ pc' = "exit"
                   /\ UNCHANGED out_days
              ELSE /\ \E dec \in {decide_day_multi(dr)} :
                         out_days' = Append(out_days, DayEntry(d, dr, dec))
                   /\ pc' = IF Len(out_days') = FORECAST_DAYS THEN "summary" ELSE "score"
                   /\ UNCHANGED <<ret, exit_status>>
    /\ UNCHANGED <<argVars, args, forecasts, html_written, email_sent>>

(* One iteration of the loop over the forecast days, lines 561-587.  *)
ScoreNextDay ==
    /\ pc = "score"
    /\ \E d \in {Len(score_log)} :
         \E dr \in {DayResults(d)} :
           /\ score_log' = Append(score_log, d)
           /\ IF DayExc(d, dr) # "none"
              THEN /\ ret' = "Forecast generation failed"
                   /\ exit_status' = 1
                   /\ pc' = "exit"
                   /\ UNCHANGED out_days
              ELSE /\ \E dec \in {decide_day_multi(dr)} :
                         out_days' = Append(out_days, DayEntry(d, dr, dec))
                   /\ pc' = IF Len(out_days') = FORECAST_DAYS THEN "summary" ELSE "score"
                   /\ UNCHANGED <<ret, exit_status>>
    /\ UNCHANGED <<argVars, args, forecasts, fetch_log, html_written, email_sent>>

(* main prints today's pick and the outlook, lines 954-984; the lookup     *)
(* RESORT_BY_SHORT[pick] of line 957 raises KeyError for an unregistered    *)
(* pick, which nothing catches.                                             *)
PrintSummary ==
    /\ pc = "summary"
    /\ IF out_days[1].pick \in Shorts
       THEN /\ pc' = "html"
            /\ UNCHANGED <<ret, exit_status>>
       ELSE /\ ret' = "KeyError"
            /\ exit_status' = 1
            /\ pc' = "exit"
    /\ UNCHANGED <<argVars, args, forecasts, fetch_log, score_log, out_days,
                   html_written, email_sent>>

(* The HTML preview is written when --html-out is given, lines 987-992.  *)
WriteHtml ==
    /\ pc = "html"
    /\ html_written' = args.html_out
    /\ pc' = "email"
    /\ UNCHANGED <<argVars, ret, args, forecasts, fetch_log, score_log, out_days,
                   exit_status, email_sent>>

(* --dry-run: no email, main returns, lines 995-996.  *)
DryRun ==
    /\ pc = "email"
    /\ args.dry_run
    /\ exit_status' = 0
    /\ pc' = "exit"
    /\ UNCHANGED <<argVars, ret, args, forecasts, fetch_log, score_log, out_days,
                   html_written, email_sent>>

(* send_email returns True, lines 917-923.  *)
SendEmailSucceeds ==
    /\ pc = "email"
    /\ ~args.dry_run
    /\ email_sent' = TRUE
    /\ exit_status' = 0
    /\ pc' = "exit"
    /\ UNCHANGED <<argVars, ret, args, forecasts, fetch_log, score_log, out_days,
                   html_written>>

(* send_email returns False (credentials missing, or SMTP raised): main    *)
(* calls sys.exit(1), lines 913-915, 924-926 and 998-999.                   *)
SendEmailFails ==
    /\ pc = "email"
    /\ ~args.dry_run
    /\ ret' = "Email failed"
    /\ exit_status' = 1
    /\ pc' = "exit"
    /\ UNCHANGED <<argVars, args, forecasts, fetch_log, score_log, out_days,
                   html_written, email_sent>>

Next ==
    \/ FetchReturns
    \/ FetchRaises
    \/ ScoreNextDay
    \/ PrintSummary
    \/ WriteHtml
    \/ DryRun
    \/ SendEmailSucceeds
    \/ SendEmailFails

Spec == Init /\ [][Next]_vars

(* Some call of fetch_forecast in this run has raised.  *)
SomeFetchFailed == \E i \in DOMAIN fetch_log : ~fetch_log[i].ok

(* C9: if fetching the dataset fails for any one location, the run ends    *)
(* with a message and a non-zero exit status and produces no report: no     *)
(* day is scored, no HTML file is written and no email is sent.             *)
C9_FetchFailureAborts ==
    SomeFetchFailed =>
        /\ pc = "exit"
        /\ exit_status # 0 /\ exit_status # -1
        /\ ret = "Forecast generation failed"
        /\ score_log = <<>>
        /\ out_days = <<>>
        /\ ~html_written
        /\ ~email_sent

(* The fetch of the fourth resort fails after three have succeeded, in a   *)
(* run that was asked for the HTML file and the email.                      *)
C9_Witness ==
    /\ Len(fetch_log) = 4
    /\ ~fetch_log[4].ok
    /\ fetch_log[1].ok /\ fetch_log[2].ok /\ fetch_log[3].ok
    /\ args.html_out /\ ~args.dry_run
    /\ pc = "exit" /\ exit_status = 1

(* How many calls of fetch_forecast this run has made for a location.  *)
FetchCount(short) == Cardinality({ i \in DOMAIN fetch_log : fetch_log[i].short = short })

(* C13: in one run no location is fetched twice, and from the first        *)
(* score_day or decide_day_multi call of the first day onwards every        *)
(* registered location has been fetched exactly once, successfully: the     *)
(* days that follow fetch nothing.                                          *)
C13_FetchOncePerLocationFirst ==
    /\ \A short \in Shorts : FetchCount(short) <= 1
    /\ \A i \in DOMAIN fetch_log : fetch_log[i].short \in Shorts
    /\ (score_log # <<>> \/ out_days # <<>>) =>
          /\ \A short \in Shorts : FetchCount(short) = 1
          /\ \A i \in DOMAIN fetch_log : fetch_log[i].ok
          /\ DOMAIN forecasts = Shorts

(* A run that has scored all five days and sent its report.  *)
C13_Witness ==
    /\ Len(score_log) = 5 /\ Len(out_days) = 5
    /\ Len(fetch_log) = 10
    /\ pc = "exit" /\ email_sent

(* C16: every entry generate_forecast has built maps each registered      *)
(* location, once, to a DayResult, ranks all of them, and names a           *)
(* registered location as its pick, never "N/A", also for a date on which   *)
(* no location has forecast data; main's registry lookup of the pick does   *)
(* not fail.                                                                *)
C16_PickAlwaysRegistered ==
    /\ \A n \in DOMAIN out_days :
          LET e == out_days[n]
          IN  /\ Len(e.results) = Len(ALL_RESORTS)
              /\ { e.results[i].short : i \in DOMAIN e.results } = Shorts
              /\ \A i \in DOMAIN e.results :
                    {"score", "concerns", "summary"} \subseteq DOMAIN e.results[i].res
              /\ Len(e.ranking) = Len(ALL_RESORTS)
              /\ { e.ranking[i] : i \in DOMAIN e.ranking } = Shorts
              /\ e.pick # "N/A"
              /\ e.pick \in Shorts
              /\ e.pick = e.ranking[1]
    /\ ret # "KeyError"
    /\ pc \in {"html", "email"} => out_days[1].pick \in Shorts

(* A finished run with a date for which every location's DayResult is the *)
(* "No forecast data" one: the pick is still a registered location.         *)
C16_Witness ==
    /\ pc = "exit" /\ exit_status = 0
    /\ \E n \in DOMAIN out_days :
          /\ \A i \in DOMAIN out_days[n].results :
                /\ out_days[n].results[i].res.score = 0
                /\ out_days[n].results[i].res.concerns =
                      << [text |-> "No forecast data", arg |-> 0] >>
          /\ out_days[n].pick \in Shorts


-----------------------------------------------------------------------------
(* THE CORE FUNCTIONS ON ANY INPUT: one call of one of the seven core      *)
(* functions, on datasets and mappings that need not be well formed.        *)

(* "2026-01-01": a timestamp that is a date alone.  *)
DateOnly(d) == [date |-> d, tail |-> <<>>]

(* A dataset of at most one timestamp; the same without its "time"         *)
(* column; the same with a date-only timestamp behind its others.           *)
IsAnyDataset(h) ==
    \E g \in { MkHourly(<<>>, <<>>) } \cup
             { MkHourly(<< TimeUniverse[i] >>, << RowSamples[j] >>) :
                  i \in DOMAIN TimeUniverse, j \in DOMAIN RowSamples } :
        \/ h = g
        \/ h = DelKey(g, "time")
        \/ h = SetKey(g, "time", Append(g["time"], DateOnly(0)))

(* A DayResult, or a dict that lacks the "score" key.  *)
AnyResults ==
    { DayResultOf(700), DayResultOf(550), [concerns |-> <<>>, summary |-> EmptyDict] }

(* Location identifiers, one of them ("Arosa") not in the registry.  *)
AnyKeys == << "Corviglia", "Arosa", "Parsenn" >>

IsAnyDayMap(dr) ==
    \E n \in 0..2 :
      \E ks \in { f \in [1..n -> DOMAIN AnyKeys] : \A i, j \in 1..n : i # j => f[i] # f[j] } :
        \E rs \in [1..n -> AnyResults] :
          dr = [i \in 1..n |-> Item(AnyKeys[ks[i]], rs[i])]

InitCore ==
    /\ pc = "call" /\ ret = Unset
    /\ resort \in DayResorts
    /\ row \in Range(RowSamples)
    /\ date_iso \in 0..1
    /\ region = Unset
    /\ \/ IsAnyDataset(hourly) /\ day_results = <<>>
       \/ hourly = MkHourly(<<>>, <<>>) /\ IsAnyDayMap(day_results)
    /\ IdleMain

NextCore ==
    \/ ExtractWindowRows
    \/ HourScore
    \/ ScoreDay
    \/ RankResorts
    \/ BestInRegion
    \/ CalculateConfidence
    \/ DecideDayMulti

SpecCore == InitCore /\ [][NextCore]_vars

(* C10: the core functions never raise: for every hourly dataset (columns  *)
(* missing, columns shorter than the timestamp array, readings absent) and  *)
(* every location-to-DayResult mapping they return a value.                 *)
C10_CoreNeverRaises ==
    pc # "call" => ret.exc = "none"

=============================================================================
